---- MODULE Spec2Model ----
(***************************************************************************)
(* DotProjector (src/app.js): the hand-pose validation gate, the landmark  *)
(* stabilizer, the auto-capture debouncer and the capture store.           *)
(*                                                                         *)
(* Numbers.  JavaScript numbers are modelled in fixed point:               *)
(*   - a landmark coordinate is an integer number of hundredths (Unit) of  *)
(*     the frame (x, y) or of the relative depth (z);                      *)
(*   - a palm area is kept doubled (area2, in Unit^2), a palm centre is    *)
(*     kept doubled (x2, y2), so that halves stay exact;                   *)
(*   - a score is in 1/10000, an alignment in 1/1000000;                   *)
(*   - a division rounds to the nearest grid point, Math.sqrt is the       *)
(*     integer square root, and every comparison with a threshold that     *)
(*     can be decided without a root or a quotient is decided exactly      *)
(*     (by squaring or cross-multiplying);                                 *)
(*   - NaN is the value NaN below, and every comparison with it is false.  *)
(* Time is Date.now() in milliseconds.                                     *)
(***************************************************************************)
EXTENDS Integers, Sequences, FiniteSets, TLC

(***************************************************************************)
(* Program constants                                                       *)
(***************************************************************************)
historySize == 5
captureCooldown == 3000
holdTime == 500
maxCaptures == 10
quotaKeep == 5

Unit == 100
NaN == -1
\* null (this.palmData, a stabilizer without frames): the empty landmark set.
NULL == << >>
\* this.handedness when the provider gave no label.
NoLabel == "null"

(***************************************************************************)
(* Arithmetic helpers                                                      *)
(***************************************************************************)
Abs(a) == IF a < 0 THEN -a ELSE a
Max(a, b) == IF a > b THEN a ELSE b
Min(a, b) == IF a < b THEN a ELSE b

\* Math.round(num / den) for den > 0: the nearest integer, halves upward.
RoundDiv(num, den) == (2 * num + den) \div (2 * den)

RECURSIVE SqrtSearch(_, _, _)
SqrtSearch(n, lo, hi) ==
    IF lo >= hi THEN lo
    ELSE LET mid == (lo + hi + 1) \div 2
         IN  IF mid * mid <= n THEN SqrtSearch(n, mid, hi)
             ELSE SqrtSearch(n, lo, mid - 1)

\* Math.sqrt on the grid: the largest r with r * r <= n.
ISqrt(n) == SqrtSearch(n, 0, 46340)

RECURSIVE SumSeq(_)
SumSeq(s) == IF Len(s) = 0 THEN 0 ELSE s[1] + SumSeq(Tail(s))

(***************************************************************************)
(* Landmark sets: the frames the landmark provider delivers                *)
(***************************************************************************)
Landmarks(t) == [i \in 0..20 |-> [x |-> t[i + 1][1], y |-> t[i + 1][2], z |-> t[i + 1][3]]]

\* An open right palm, upright, centred, about 36 cm away.
OpenHand == Landmarks(<<
    <<50, 80, 0>>,
    <<43, 76, 0>>, <<37, 70, -1>>, <<32, 64, -2>>, <<28, 58, -3>>,
    <<42, 55, 0>>, <<41, 45, -1>>, <<40, 37, -2>>, <<39, 30, -3>>,
    <<48, 53, 0>>, <<48, 42, -1>>, <<48, 33, -2>>, <<48, 26, -3>>,
    <<54, 55, 0>>, <<55, 45, -1>>, <<56, 37, -2>>, <<57, 31, -3>>,
    <<60, 58, 0>>, <<62, 50, -1>>, <<64, 44, -2>>, <<66, 39, -3>> >>)

\* The same palm with the four fingers curled into it (a fist, thumb out).
FistHand == Landmarks(<<
    <<50, 80, 0>>,
    <<43, 76, 0>>, <<37, 70, -1>>, <<32, 64, -2>>, <<28, 58, -3>>,
    <<42, 55, 0>>, <<42, 47, -2>>, <<43, 51, -3>>, <<43, 57, -3>>,
    <<48, 53, 0>>, <<48, 45, -2>>, <<49, 49, -3>>, <<49, 55, -3>>,
    <<54, 55, 0>>, <<54, 47, -2>>, <<55, 51, -3>>, <<55, 57, -3>>,
    <<60, 58, 0>>, <<60, 50, -2>>, <<61, 54, -3>>, <<61, 60, -3>> >>)

\* The open palm held closer to the camera (1.5 times larger, about 18 cm).
NearHand == Landmarks(<<
    <<50, 93, 0>>,
    <<40, 87, 0>>, <<30, 78, -1>>, <<23, 69, -2>>, <<17, 60, -3>>,
    <<38, 56, 0>>, <<36, 40, -1>>, <<35, 28, -2>>, <<34, 18, -3>>,
    <<47, 52, 0>>, <<47, 36, -1>>, <<47, 22, -2>>, <<47, 12, -3>>,
    <<56, 56, 0>>, <<58, 40, -1>>, <<59, 28, -2>>, <<60, 20, -3>>,
    <<65, 60, 0>>, <<68, 48, -1>>, <<71, 39, -2>>, <<74, 32, -3>> >>)

\* The open palm turned a quarter about the vertical axis: the index and pinky
\* knuckles stand straight above the wrist, so wrist, index base and pinky
\* base lie on one line.
EdgeOnHand == [OpenHand EXCEPT ![5]  = [x |-> 50, y |-> 50, z |-> 0],
                               ![9]  = [x |-> 58, y |-> 48, z |-> 0],
                               ![13] = [x |-> 64, y |-> 58, z |-> 0],
                               ![17] = [x |-> 50, y |-> 62, z |-> 0]]

(***************************************************************************)
(* Stabilizer                                                              *)
(***************************************************************************)
\* The weight of frame frameIdx (0-based) is (frameIdx + 1) / history.length;
\* the common factor 1 / history.length cancels in x / weight.
WeightedCoord(history, i, c) ==
    LET n   == Len(history)
        num == SumSeq([k \in 1..n |-> history[k][i][c] * k])
        den == (n * (n + 1)) \div 2
    IN  RoundDiv(num, den)

stabilizeLandmarks(history) ==
    IF Len(history) = 0 THEN NULL
    ELSE IF Len(history) = 1 THEN history[1]
    ELSE [i \in 0..20 |-> [x |-> WeightedCoord(history, i, "x"),
                           y |-> WeightedCoord(history, i, "y"),
                           z |-> WeightedCoord(history, i, "z")]]

(***************************************************************************)
(* Pose metrics                                                            *)
(***************************************************************************)
DistSq(p, q) == (p.x - q.x) * (p.x - q.x) + (p.y - q.y) * (p.y - q.y)

\* Math.sqrt of a squared distance, in 1/10000 of the frame.
Dist4(dsq) == ISqrt(dsq * 10000)

\* The palm centre, doubled: wrist + middle-finger base.
calculatePalmCenter(landmarks) ==
    [x2 |-> landmarks[0].x + landmarks[9].x,
     y2 |-> landmarks[0].y + landmarks[9].y,
     z2 |-> landmarks[0].z + landmarks[9].z]

\* Twice the shoelace area of the polygon 0, 5, 9, 13, 17.
calculatePalmArea(landmarks) ==
    LET palmPoints == <<0, 5, 9, 13, 17>>
        term(i) == LET j  == (i % 5) + 1
                       p1 == landmarks[palmPoints[i]]
                       p2 == landmarks[palmPoints[j]]
                   IN  p1.x * p2.y - p2.x * p1.y
    IN  Abs(SumSeq([i \in 1..5 |-> term(i)]))

\* calculateDistance(palmCenter) ignores its argument and reads this.palmData:
\* `data` is the value of this.palmData at the time of the call.  Reading
\* landmarks[0] of null throws a TypeError, the value Thrown.
Thrown == -2

\* A conversion whose far piece starts at 50 cm instead of 45 cm.
DistanceOfAreaFarFrom50(area2) ==
    IF area2 > 1600 THEN 5
    ELSE IF area2 > 1000 THEN RoundDiv(1800 - area2, 40)
    ELSE IF area2 > 200 THEN RoundDiv(1640 - area2, 32)
    ELSE RoundDiv(450 - area2, 5)

\* A conversion that reports 4 cm for the largest palms.
DistanceOfAreaFrom4(area2) ==
    IF area2 > 1600 THEN 4
    ELSE IF area2 > 1000 THEN RoundDiv(1800 - area2, 40)
    ELSE IF area2 > 200 THEN RoundDiv(1640 - area2, 32)
    ELSE RoundDiv(425 - area2, 5)

DistanceOfArea(area2) ==
    IF area2 > 1600 THEN 5
    ELSE IF area2 > 1000 THEN RoundDiv(1800 - area2, 40)
    ELSE IF area2 > 200 THEN RoundDiv(1640 - area2, 32)
    ELSE RoundDiv(425 - area2, 5)

calculateDistance(palmCenter, data) ==
    IF data = NULL THEN Thrown ELSE DistanceOfArea(calculatePalmArea(data))

calculateFingerSpread(landmarks) ==
    LET fingertips == <<4, 8, 12, 16, 20>>
        d(i) == Dist4(DistSq(landmarks[fingertips[i]], landmarks[fingertips[i + 1]]))
    IN  SumSeq([i \in 1..4 |-> d(i)]) \div 4

\* The hand is taken for a left hand when the index base is right of the pinky base.
Cross(landmarks) ==
    LET w  == landmarks[0]
        i  == landmarks[5]
        p  == landmarks[17]
        v1 == [x |-> i.x - w.x, y |-> i.y - w.y, z |-> i.z - w.z]
        v2 == [x |-> p.x - w.x, y |-> p.y - w.y, z |-> p.z - w.z]
    IN  [x |-> v1.y * v2.z - v1.z * v2.y,
         y |-> v1.z * v2.x - v1.x * v2.z,
         z |-> v1.x * v2.y - v1.y * v2.x]

\* The z component of the unit palm normal, in 1/10000; NaN when the normal
\* has length 0 (0 / 0).
calculatePalmNormal(landmarks) ==
    LET isLeftHand == landmarks[5].x > landmarks[17].x
        n      == Cross(landmarks)
        nz     == IF isLeftHand THEN -n.z ELSE n.z
        lensq  == n.x * n.x + n.y * n.y + n.z * n.z
        length == ISqrt(lensq)
    IN  IF lensq = 0 THEN NaN
        ELSE IF nz >= 0 THEN Min(10000, RoundDiv(10000 * nz, length))
        ELSE -Min(10000, RoundDiv(10000 * (-nz), length))

NormalIsNaN(landmarks) ==
    LET n == Cross(landmarks) IN n.x * n.x + n.y * n.y + n.z * n.z = 0

\* calculateAlignment, in 1/1000000; NaN when the palm normal is NaN.
calculateAlignment(landmarks) ==
    LET margin == 3
        criticalPoints == {0, 4, 8, 12, 16, 20}
        allVisible == \A idx \in criticalPoints :
            ~(landmarks[idx].x < margin \/ landmarks[idx].x > Unit - margin \/
              landmarks[idx].y < margin \/ landmarks[idx].y > Unit - margin)
        palmArea == calculatePalmArea(landmarks)
        areaScore == IF palmArea < 200 THEN palmArea * 50
                     ELSE IF palmArea > 8000 THEN 8000 ELSE 10000
        nz == calculatePalmNormal(landmarks)
        orientationScore == Max(0, Min(10000, (nz * 3) \div 2))
        spreadScore == Min(10000, calculateFingerSpread(landmarks) * 10)
        palmCenter == calculatePalmCenter(landmarks)
        centerDistance == ISqrt(2500 * ((palmCenter.x2 - Unit) * (palmCenter.x2 - Unit) +
                                        (palmCenter.y2 - Unit) * (palmCenter.y2 - Unit)))
        centerScore == Max(5000, 10000 - centerDistance)
        alignment == areaScore * 25 + orientationScore * 35 + spreadScore * 15 + centerScore * 25
    IN  IF ~allVisible THEN 0
        ELSE IF NormalIsNaN(landmarks) THEN NaN
        ELSE Max(0, Min(1000000, alignment))

\* Math.round(alignment * 100); Math.round(NaN) is NaN.
AlignmentPercent(alignment) ==
    IF alignment = NaN THEN NaN ELSE RoundDiv(alignment, 10000)

\* dot / (mag1 * mag2) > 0.5, decided exactly; 0 / 0 is NaN and NaN > 0.5 is false.
checkFingerExtension(landmarks) ==
    LET fingerGroups == {<<5, 6, 7, 8>>, <<9, 10, 11, 12>>, <<13, 14, 15, 16>>, <<17, 18, 19, 20>>}
        extended(finger) ==
            LET base   == landmarks[finger[1]]
                middle == landmarks[finger[3]]
                tip    == landmarks[finger[4]]
                v1x == middle.x - base.x
                v1y == middle.y - base.y
                v2x == tip.x - middle.x
                v2y == tip.y - middle.y
                dot == v1x * v2x + v1y * v2y
                m1  == v1x * v1x + v1y * v1y
                m2  == v2x * v2x + v2y * v2y
            IN  dot > 0 /\ 4 * dot * dot > m1 * m2
        extendedCount == Cardinality({f \in fingerGroups : extended(f)})
    IN  extendedCount >= 3

checkHandFlatness(landmarks) ==
    LET palmCenter == calculatePalmCenter(landmarks)
        fingers == {<<4, 3>>, <<8, 6>>, <<12, 10>>, <<16, 14>>, <<20, 18>>}
        open(f) ==
            LET tip == landmarks[f[1]]
                mid == landmarks[f[2]]
                \* tipToPalmDist > 0.15, with the centre doubled
                dx2 == 2 * tip.x - palmCenter.x2
                dy2 == 2 * tip.y - palmCenter.y2
            IN  dx2 * dx2 + dy2 * dy2 > 900 /\ DistSq(tip, mid) > 25
        openFingers == Cardinality({f \in fingers : open(f)})
        palmBase == landmarks[0].z
        tooDeep == \E idx \in {4, 8, 12, 16, 20} : Abs(landmarks[idx].z - palmBase) >= 15
    IN  openFingers >= 3 /\ ~tooDeep

\* `label` is this.handedness.
checkPalmOrientation(landmarks, label) ==
    LET isLeftHand == label = "Left"
        tipZ == SumSeq([i \in 1..5 |-> landmarks[4 * i].z])
        mcpZ == SumSeq([i \in 1..4 |-> landmarks[4 * i + 1].z])
        \* tipZ / 5 < mcpZ / 4 + 0.01
        depthCheck == 4 * tipZ < 5 * mcpZ + 20
        normal == Cross(landmarks)
        normalCheck == IF isLeftHand THEN normal.z < 0 ELSE normal.z > 0
    IN  depthCheck /\ normalCheck

\* The rotation angle is atan2(det, dot) in degrees: it is kept as the pair.
checkHandRotation(landmarks) ==
    LET wrist      == landmarks[0]
        middleBase == landmarks[9]
        isLeftHand == landmarks[5].x > landmarks[17].x
        bx  == middleBase.x - wrist.x
        by  == middleBase.y - wrist.y
        dot == -by
        det == -bx
    IN  [det |-> IF isLeftHand THEN -det ELSE det, dot |-> dot]

\* Math.abs(rotation) > 30: tan(30 deg)^2 = 1/3.
RotationOver30(rotation) ==
    ~(rotation.det = 0 /\ rotation.dot = 0) /\
    ~(rotation.dot > 0 /\ 3 * rotation.det * rotation.det <= rotation.dot * rotation.dot)

(***************************************************************************)
(* Validation gate (updatePalmVisualization): the status it reports        *)
(***************************************************************************)
\* `data` is this.palmData, which calculateDistance reads; `label` is this.handedness.
\* "None" is the frame on which no branch of the if-chain is taken.
Classify(landmarks, label, data) ==
    LET distance  == calculateDistance(calculatePalmCenter(landmarks), data)
        alignment == calculateAlignment(landmarks)
        margin    == 5
        fullyVisible == \A i \in 0..20 :
            ~(landmarks[i].x < margin \/ landmarks[i].x > Unit - margin \/
              landmarks[i].y < margin \/ landmarks[i].y > Unit - margin)
        fingersExtended == checkFingerExtension(landmarks)
    IN  IF ~fullyVisible THEN "OutOfFrame"
        ELSE IF ~fingersExtended THEN "FingersNotExtended"
        ELSE IF distance < 5 THEN "TooClose"
        ELSE IF distance > 45 THEN "TooFar"
        ELSE IF alignment # NaN /\ alignment < 300000 THEN "NotCentered"
        ELSE IF distance >= 5 /\ distance <= 45 /\ alignment # NaN /\ alignment >= 300000
                /\ fingersExtended
        THEN IF ~checkPalmOrientation(landmarks, label) THEN "WrongOrientation"
             ELSE IF RotationOver30(checkHandRotation(landmarks)) THEN "Rotated"
             ELSE IF ~checkHandFlatness(landmarks) THEN "NotFlat"
             ELSE "Perfect"
        ELSE "None"

\* updateHandVisualization: the colour given to the hand skeleton.  `data` is
\* this.palmData, which calculateDistance reads; `label` is this.handedness.
HandColor(landmarks, label, data) ==
    LET distance  == calculateDistance(calculatePalmCenter(landmarks), data)
        alignment == calculateAlignment(landmarks)
        isPalmOriented == checkPalmOrientation(landmarks, label)
        isFlatEnough   == checkHandFlatness(landmarks)
    IN  IF distance > 45 THEN "red"
        ELSE IF distance < 8 THEN "red"
        ELSE IF distance >= 8 /\ distance <= 45 /\ alignment # NaN /\ alignment >= 300000
                /\ isPalmOriented /\ isFlatEnough
                /\ ~RotationOver30(checkHandRotation(landmarks))
        THEN "green"
        ELSE "yellow"

(***************************************************************************)
(* State                                                                   *)
(***************************************************************************)
VARIABLES
    now,                  \* Date.now()
    isScanning,
    isProcessingStart,
    startPc,              \* where the startScanning call in progress is suspended
    camerasKnown,         \* availableCameras.length > 0
    srcObject,            \* videoElement.srcObject is a live stream
    loop,                 \* the detectHand loop: "off", "idle" (frame requested), "sending"
    palmData,
    handedness,
    landmarkHistory,
    isAutoCapturing,
    perfectAlignmentTime,
    lastCaptureTime,
    irMode,
    captures,
    pending,              \* accepted captures whose encoding callbacks have not run yet
    timers,               \* the due times of the setTimeout(() => this.startScanning(), 500) calls
    \* history variables (not program state)
    fires,                \* the times at which handlePerfectAlignment fired a capture
    accepted,             \* the accepted capture() calls: their time and who called
    streakClean,          \* every provider result since the debouncer armed was Perfect
    armedAt,              \* the time of the frame that armed the debouncer
    thrown,               \* an encoding callback raised an exception
    nFrames,              \* the number of provider results delivered
    step                  \* what the last step did

prog == <<now, isScanning, isProcessingStart, startPc, camerasKnown, srcObject, loop,
          palmData, handedness, landmarkHistory, isAutoCapturing, perfectAlignmentTime,
          lastCaptureTime, irMode, captures, pending, timers>>
hist == <<fires, accepted, streakClean, armedAt, thrown, nFrames, step>>
vars == <<prog, hist>>

scanVars == <<isScanning, isProcessingStart, startPc, camerasKnown, srcObject>>
restartDelay == 500
handVars == <<palmData, handedness, landmarkHistory>>
debounceVars == <<isAutoCapturing, perfectAlignmentTime, lastCaptureTime>>
logVars == <<fires, accepted, streakClean, armedAt, thrown, nFrames>>

(***************************************************************************)
(* Bounds                                                                  *)
(***************************************************************************)
\* Date.now() when the page is constructed: later than one cooldown after 0.
StartTime == 3000
\* The provider delivers a result every FramePeriod, or after a pause of one
\* cooldown; the clock stops after MaxTicks frame periods and MaxPauses pauses.
FramePeriod == 100
MaxTicks == 10
MaxPauses == 1
TicksUsed == ((now - StartTime) % captureCooldown) \div FramePeriod
PausesUsed == (now - StartTime) \div captureCooldown
MayPass(dt) ==
    IF dt >= captureCooldown THEN PausesUsed < MaxPauses
    ELSE TicksUsed * FramePeriod + dt <= MaxTicks * FramePeriod
\* At most MaxManual captures taken by hand are accepted.
MaxManual == 1
ManualTaken == Len(SelectSeq(accepted, LAMBDA a : a.by = "manual"))

NoStep == [op |-> "init"]

Init ==
    /\ now = StartTime
    /\ isScanning = FALSE
    /\ isProcessingStart = FALSE
    /\ startPc = "none"
    /\ camerasKnown = FALSE
    /\ srcObject = FALSE
    /\ loop = "off"
    /\ palmData = NULL
    /\ handedness = NoLabel
    /\ landmarkHistory = << >>
    /\ isAutoCapturing = FALSE
    /\ perfectAlignmentTime = 0
    /\ lastCaptureTime = 0
    /\ irMode = FALSE
    /\ captures = << >>
    /\ pending = << >>
    /\ timers = << >>
    /\ fires = << >>
    /\ accepted = << >>
    /\ streakClean = FALSE
    /\ armedAt = 0
    /\ thrown = FALSE
    /\ nFrames = 0
    /\ step = NoStep

(***************************************************************************)
(* Capture                                                                 *)
(***************************************************************************)
\* new Date().toISOString() at time t
ISOString(t) == <<"iso", t>>

\* The metrics object of a capture record: the snapshot `current` is passed to
\* calculateAlignment, and calculateDistance reads `data` (this.palmData).
Metrics(current, data) ==
    [distance  |-> calculateDistance(calculatePalmCenter(current), data),
     alignment |-> AlignmentPercent(calculateAlignment(current))]

\* this.captures after the unshift(s), without any trim.
StoredUntrimmed(records, quota) ==
    records \o captures

\* this.captures after the unshift(s), the trim to 10 and, when localStorage
\* throws QuotaExceededError, the trim to 5.
Stored(records, quota) ==
    LET all    == records \o captures
        capped == IF Len(all) > maxCaptures THEN SubSeq(all, 1, maxCaptures) ELSE all
    IN  IF quota THEN SubSeq(capped, 1, Min(Len(capped), quotaKeep)) ELSE capped

\* The part of captureDualMode that runs before its first await.
captureDualMode(pd) ==
    [kind |-> "dual", id |-> now, timestamp |-> ISOString(now), metrics |-> Metrics(pd, pd)]

\* capture() without its flatness re-validation.
captureUnvalidated(pd, label, auto, pat) ==
    IF pd = NULL \/ ~srcObject
    THEN [accepted |-> FALSE, reason |-> "NoPalm", isAutoCapturing |-> auto,
          perfectAlignmentTime |-> pat, pending |-> pending]
    ELSE IF ~checkPalmOrientation(pd, label)
    THEN [accepted |-> FALSE, reason |-> "NotOriented", isAutoCapturing |-> FALSE,
          perfectAlignmentTime |-> 0, pending |-> pending]
    ELSE [accepted |-> TRUE, reason |-> "Accepted", isAutoCapturing |-> FALSE,
          perfectAlignmentTime |-> 0,
          pending |-> Append(pending,
                             IF irMode THEN captureDualMode(pd)
                             ELSE [kind |-> "regular", currentPalmData |-> pd])]

\* capture(), called with this.palmData = pd, this.handedness = label,
\* this.isAutoCapturing = auto and this.perfectAlignmentTime = pat.
capture(pd, label, auto, pat) ==
    IF pd = NULL \/ ~srcObject
    THEN [accepted |-> FALSE, reason |-> "NoPalm", isAutoCapturing |-> auto,
          perfectAlignmentTime |-> pat, pending |-> pending]
    ELSE IF ~checkHandFlatness(pd)
    THEN [accepted |-> FALSE, reason |-> "NotFlat", isAutoCapturing |-> FALSE,
          perfectAlignmentTime |-> 0, pending |-> pending]
    ELSE IF ~checkPalmOrientation(pd, label)
    THEN [accepted |-> FALSE, reason |-> "NotOriented", isAutoCapturing |-> FALSE,
          perfectAlignmentTime |-> 0, pending |-> pending]
    ELSE [accepted |-> TRUE, reason |-> "Accepted", isAutoCapturing |-> FALSE,
          perfectAlignmentTime |-> 0,
          pending |-> Append(pending,
                             IF irMode THEN captureDualMode(pd)
                             ELSE [kind |-> "regular", currentPalmData |-> pd])]

\* The click on captureBtn (enabled while scanning).
Capture ==
    /\ isScanning
    /\ \E c \in {capture(palmData, handedness, isAutoCapturing, perfectAlignmentTime)} :
           /\ isAutoCapturing' = c.isAutoCapturing
           /\ perfectAlignmentTime' = c.perfectAlignmentTime
           /\ pending' = c.pending
           /\ accepted' = IF c.accepted THEN Append(accepted, [t |-> now, by |-> "manual"])
                          ELSE accepted
           /\ step' = [op |-> "capture", accepted |-> c.accepted, reason |-> c.reason]
    /\ UNCHANGED <<now, scanVars, loop, handVars, lastCaptureTime, irMode, timers, captures,
                   fires, streakClean, armedAt, thrown, nFrames>>

\* handlePerfectAlignment() without the cooldown test of its first line.
handlePerfectAlignmentNoCooldown(pd, label) ==
    LET arm == ~isAutoCapturing
        pat == IF arm THEN now ELSE perfectAlignmentTime
    IN  IF now - pat >= holdTime
        THEN LET c == capture(pd, label, TRUE, pat)
             IN  [c EXCEPT !.isAutoCapturing = FALSE] @@
                 [fired |-> TRUE, armed |-> arm, lastCaptureTime |-> now]
        ELSE [fired |-> FALSE, armed |-> arm, accepted |-> FALSE, reason |-> "Hold",
              isAutoCapturing |-> TRUE, perfectAlignmentTime |-> pat,
              lastCaptureTime |-> lastCaptureTime, pending |-> pending]

\* handlePerfectAlignment() that leaves lastCaptureTime alone when it fires.
handlePerfectAlignmentNoStamp(pd, label) ==
    IF now - lastCaptureTime < captureCooldown
    THEN [fired |-> FALSE, armed |-> FALSE, accepted |-> FALSE, reason |-> "Cooldown",
          isAutoCapturing |-> isAutoCapturing, perfectAlignmentTime |-> perfectAlignmentTime,
          lastCaptureTime |-> lastCaptureTime, pending |-> pending]
    ELSE LET arm == ~isAutoCapturing
             pat == IF arm THEN now ELSE perfectAlignmentTime
         IN  IF now - pat >= holdTime
             THEN LET c == capture(pd, label, TRUE, pat)
                  IN  [c EXCEPT !.isAutoCapturing = FALSE] @@
                      [fired |-> TRUE, armed |-> arm, lastCaptureTime |-> lastCaptureTime]
             ELSE [fired |-> FALSE, armed |-> arm, accepted |-> FALSE, reason |-> "Hold",
                   isAutoCapturing |-> TRUE, perfectAlignmentTime |-> pat,
                   lastCaptureTime |-> lastCaptureTime, pending |-> pending]

\* handlePerfectAlignment() that fires only after more than holdTime.
handlePerfectAlignmentStrictHold(pd, label) ==
    IF now - lastCaptureTime < captureCooldown
    THEN [fired |-> FALSE, armed |-> FALSE, accepted |-> FALSE, reason |-> "Cooldown",
          isAutoCapturing |-> isAutoCapturing, perfectAlignmentTime |-> perfectAlignmentTime,
          lastCaptureTime |-> lastCaptureTime, pending |-> pending]
    ELSE LET arm == ~isAutoCapturing
             pat == IF arm THEN now ELSE perfectAlignmentTime
         IN  IF now - pat > holdTime
             THEN LET c == capture(pd, label, TRUE, pat)
                  IN  [c EXCEPT !.isAutoCapturing = FALSE] @@
                      [fired |-> TRUE, armed |-> arm, lastCaptureTime |-> now]
             ELSE [fired |-> FALSE, armed |-> arm, accepted |-> FALSE, reason |-> "Hold",
                   isAutoCapturing |-> TRUE, perfectAlignmentTime |-> pat,
                   lastCaptureTime |-> lastCaptureTime, pending |-> pending]

\* handlePerfectAlignment() that stamps perfectAlignmentTime on every Perfect frame.
handlePerfectAlignmentRestamp(pd, label) ==
    IF now - lastCaptureTime < captureCooldown
    THEN [fired |-> FALSE, armed |-> FALSE, accepted |-> FALSE, reason |-> "Cooldown",
          isAutoCapturing |-> isAutoCapturing, perfectAlignmentTime |-> perfectAlignmentTime,
          lastCaptureTime |-> lastCaptureTime, pending |-> pending]
    ELSE [fired |-> FALSE, armed |-> ~isAutoCapturing, accepted |-> FALSE, reason |-> "Hold",
          isAutoCapturing |-> TRUE, perfectAlignmentTime |-> now,
          lastCaptureTime |-> lastCaptureTime, pending |-> pending]

\* handlePerfectAlignment() on a Perfect frame whose landmarks are pd.
handlePerfectAlignment(pd, label) ==
    IF now - lastCaptureTime < captureCooldown
    THEN [fired |-> FALSE, armed |-> FALSE, accepted |-> FALSE, reason |-> "Cooldown",
          isAutoCapturing |-> isAutoCapturing, perfectAlignmentTime |-> perfectAlignmentTime,
          lastCaptureTime |-> lastCaptureTime, pending |-> pending]
    ELSE LET arm == ~isAutoCapturing
             pat == IF arm THEN now ELSE perfectAlignmentTime
         IN  IF now - pat >= holdTime
             THEN LET c == capture(pd, label, TRUE, pat)
                  IN  [c EXCEPT !.isAutoCapturing = FALSE] @@
                      [fired |-> TRUE, armed |-> arm, lastCaptureTime |-> now]
             ELSE [fired |-> FALSE, armed |-> arm, accepted |-> FALSE, reason |-> "Hold",
                   isAutoCapturing |-> TRUE, perfectAlignmentTime |-> pat,
                   lastCaptureTime |-> lastCaptureTime, pending |-> pending]

(***************************************************************************)
(* The landmark provider's results                                         *)
(***************************************************************************)
\* A history that drops the newest frame when a sixth arrives.
PushFrameDropNewest(history, rawLandmarks) ==
    LET pushed == Append(history, rawLandmarks)
    IN  IF Len(pushed) > historySize THEN SubSeq(pushed, 1, historySize) ELSE pushed

\* this.landmarkHistory.push(rawLandmarks), then shift() when it is longer
\* than historySize.
PushFrame(history, rawLandmarks) ==
    LET pushed == Append(history, rawLandmarks)
    IN  IF Len(pushed) > historySize THEN Tail(pushed) ELSE pushed

\* onHandResults with a detected hand: raw landmarks and the handedness label
\* (NoLabel when multiHandedness is empty).
HandDetected(rawLandmarks, label) ==
    LET history == PushFrame(landmarkHistory, rawLandmarks)
        hd      == IF label # NoLabel THEN label ELSE handedness
    IN  \E pd \in {stabilizeLandmarks(history)} :
        \E cls \in {Classify(pd, hd, pd)} :
        \E h \in {IF cls = "Perfect" THEN handlePerfectAlignment(pd, hd) ELSE [fired |-> FALSE]} :
        /\ landmarkHistory' = history
        /\ palmData' = pd
        /\ handedness' = hd
        /\ IF cls = "Perfect"
           THEN /\ isAutoCapturing' = h.isAutoCapturing
                /\ perfectAlignmentTime' = h.perfectAlignmentTime
                /\ lastCaptureTime' = h.lastCaptureTime
                /\ pending' = h.pending
                /\ fires' = IF h.fired THEN Append(fires, now) ELSE fires
                /\ accepted' = IF h.accepted THEN Append(accepted, [t |-> now, by |-> "auto"])
                               ELSE accepted
                /\ streakClean' = IF h.armed THEN TRUE ELSE streakClean
                /\ armedAt' = IF h.armed THEN now ELSE armedAt
                /\ step' = [op |-> "frame", cls |-> cls, fired |-> h.fired, armed |-> h.armed,
                            accepted |-> h.accepted, reason |-> h.reason,
                            raw |-> rawLandmarks]
           ELSE /\ IF cls = "None"
                   THEN UNCHANGED <<isAutoCapturing, perfectAlignmentTime>>
                   ELSE isAutoCapturing' = FALSE /\ perfectAlignmentTime' = 0
                /\ streakClean' = FALSE
                /\ step' = [op |-> "frame", cls |-> cls, fired |-> FALSE, armed |-> FALSE,
                            accepted |-> FALSE, reason |-> cls, raw |-> rawLandmarks]
                /\ UNCHANGED <<lastCaptureTime, pending, fires, accepted, armedAt>>

\* onHandResults without a hand, leaving the landmark history as it is.
HandLostKeepsHistory ==
    /\ palmData' = NULL
    /\ handedness' = NoLabel
    /\ landmarkHistory' = landmarkHistory
    /\ streakClean' = FALSE
    /\ step' = [op |-> "nohand", held |-> Len(landmarkHistory)]
    /\ UNCHANGED <<debounceVars, pending, fires, accepted, armedAt>>

\* onHandResults without a hand.
HandLost ==
    /\ palmData' = NULL
    /\ handedness' = NoLabel
    /\ landmarkHistory' = << >>
    /\ streakClean' = FALSE
    /\ step' = [op |-> "nohand", held |-> Len(landmarkHistory)]
    /\ UNCHANGED <<debounceVars, pending, fires, accepted, armedAt>>

\* hands.send() resolves: onHandResults(results) runs, then detectHand requests
\* the next animation frame.
OnHandResults(rawLandmarks, label) ==
    /\ loop = "sending"
    /\ loop' = "idle"
    /\ nFrames' = nFrames + 1
    /\ IF rawLandmarks = NULL THEN HandLost ELSE HandDetected(rawLandmarks, label)
    /\ UNCHANGED <<now, scanVars, irMode, timers, captures, thrown>>

\* detectHand(), run from an animation frame dt milliseconds after it was requested.
DetectHand(dt) ==
    /\ loop = "idle"
    /\ MayPass(dt)
    /\ now' = now + dt
    /\ loop' = IF ~isScanning THEN "off"
               ELSE IF srcObject THEN "sending" ELSE "idle"
    /\ step' = [op |-> "detect"]
    /\ UNCHANGED <<scanVars, handVars, debounceVars, irMode, timers, captures, pending, logVars>>

(***************************************************************************)
(* The encoding callbacks of an accepted capture                           *)
(***************************************************************************)
Remove(seq, i) == SubSeq(seq, 1, i - 1) \o SubSeq(seq, i + 1, Len(seq))

\* reader.onloadend of a regular capture: the record is built now.  When
\* this.palmData is null, calculateDistance throws and nothing is stored.
RegularCaptureDone(i, quota) ==
    /\ i \in DOMAIN pending
    /\ pending[i].kind = "regular"
    /\ pending' = Remove(pending, i)
    /\ \E currentPalmData \in {pending[i].currentPalmData} :
       \E metrics \in {Metrics(currentPalmData, palmData)} :
       LET captureData == [id |-> now, type |-> "regular", timestamp |-> ISOString(now),
                           metrics |-> metrics]
       IN  IF metrics.distance = Thrown
           THEN /\ thrown' = TRUE
                /\ captures' = captures
                /\ step' = [op |-> "regularDone", threw |-> TRUE, added |-> << >>,
                            atCall |-> Metrics(currentPalmData, currentPalmData)]
           ELSE /\ thrown' = thrown
                /\ captures' = Stored(<<captureData>>, quota)
                /\ step' = [op |-> "regularDone", threw |-> FALSE, added |-> <<captureData>>,
                            atCall |-> Metrics(currentPalmData, currentPalmData)]
    /\ UNCHANGED <<now, scanVars, loop, handVars, debounceVars, irMode, timers,
                   fires, accepted, streakClean, armedAt, nFrames>>

\* regularReader.onloadend of a dual capture: both records are stored.
DualCaptureDone(i, quota) ==
    /\ i \in DOMAIN pending
    /\ pending[i].kind = "dual"
    /\ pending' = Remove(pending, i)
    /\ LET job == pending[i]
           irCapture == [id |-> job.id, type |-> "ir", timestamp |-> job.timestamp,
                         metrics |-> job.metrics, pairedWith |-> job.id + 1]
           regularCapture == [id |-> job.id + 1, type |-> "regular",
                              timestamp |-> job.timestamp, metrics |-> job.metrics,
                              pairedWith |-> job.id]
       IN  /\ captures' = Stored(<<irCapture, regularCapture>>, quota)
           /\ step' = [op |-> "dualDone", threw |-> FALSE,
                       added |-> <<irCapture, regularCapture>>, atCall |-> job.metrics]
    /\ UNCHANGED <<now, scanVars, loop, handVars, debounceVars, irMode, timers, logVars>>

(***************************************************************************)
(* The gallery                                                             *)
(***************************************************************************)
deleteCapture(id) ==
    /\ \E k \in DOMAIN captures : captures[k].id = id
    /\ captures' = SelectSeq(captures, LAMBDA c : c.id # id)
    /\ step' = [op |-> "delete", id |-> id, removed |-> Len(captures) - Len(captures')]
    /\ UNCHANGED <<now, scanVars, loop, handVars, debounceVars, irMode, timers, pending, logVars>>

clearAllCaptures ==
    /\ captures' = << >>
    /\ step' = [op |-> "clear"]
    /\ UNCHANGED <<now, scanVars, loop, handVars, debounceVars, irMode, timers, pending, logVars>>

(***************************************************************************)
(* Scanning                                                                *)
(***************************************************************************)
\* The toggles of the IR mode are bounded.
MaxToggles == 2

\* startScanning() without the isProcessingStart test of its first line.
startScanningNoGuard ==
    IF isScanning
    THEN /\ isScanning' = FALSE
         /\ srcObject' = FALSE
         /\ UNCHANGED <<isProcessingStart, startPc, camerasKnown>>
    ELSE /\ isProcessingStart' = TRUE
         /\ IF camerasKnown
            THEN isScanning' = TRUE /\ startPc' = "media"
            ELSE isScanning' = isScanning /\ startPc' = "detect"
         /\ UNCHANGED <<camerasKnown, srcObject>>

\* startScanning() up to its first await.
startScanning ==
    IF isProcessingStart
    THEN UNCHANGED scanVars
    ELSE IF isScanning
    THEN \* stopScanning()
         /\ isScanning' = FALSE
         /\ srcObject' = FALSE
         /\ UNCHANGED <<isProcessingStart, startPc, camerasKnown>>
    ELSE /\ isProcessingStart' = TRUE
         /\ IF camerasKnown
            THEN isScanning' = TRUE /\ startPc' = "media"
            ELSE isScanning' = isScanning /\ startPc' = "detect"
         /\ UNCHANGED <<camerasKnown, srcObject>>

\* The click on startBtn.
StartClick ==
    /\ startScanning
    /\ step' = [op |-> "start", stopped |-> ~isProcessingStart /\ isScanning]
    /\ UNCHANGED <<now, loop, handVars, debounceVars, irMode, timers, captures, pending,
                   logVars>>

\* A restart scheduled by toggleIRMode comes due.
RestartTimeout ==
    /\ timers # << >>
    /\ timers[1] <= now
    /\ timers' = Tail(timers)
    /\ startScanning
    /\ step' = [op |-> "restart", blocked |-> isProcessingStart,
                stopped |-> ~isProcessingStart /\ isScanning]
    /\ UNCHANGED <<now, loop, handVars, debounceVars, irMode, captures, pending, logVars>>

\* detectCameras() resolves, with or without a camera.
DetectCamerasDone(found) ==
    /\ startPc = "detect"
    /\ camerasKnown' = found
    /\ IF found
       THEN isScanning' = TRUE /\ startPc' = "media" /\ UNCHANGED isProcessingStart
       ELSE isScanning' = FALSE /\ startPc' = "none" /\ isProcessingStart' = FALSE
    /\ step' = [op |-> "cameras", found |-> found]
    /\ UNCHANGED <<now, srcObject, loop, handVars, debounceVars, irMode, timers, captures,
                   pending, logVars>>

\* getUserMedia() resolves (ok) or rejects (catch: stopScanning(); finally).
GetUserMediaDone(ok) ==
    /\ startPc = "media"
    /\ IF ok
       THEN srcObject' = TRUE /\ startPc' = "meta" /\ UNCHANGED <<isScanning, isProcessingStart>>
       ELSE /\ isScanning' = FALSE
            /\ srcObject' = FALSE
            /\ startPc' = "none"
            /\ isProcessingStart' = FALSE
    /\ step' = [op |-> "media", ok |-> ok]
    /\ UNCHANGED <<now, camerasKnown, loop, handVars, debounceVars, irMode, timers, captures,
                   pending, logVars>>

\* onloadedmetadata of the attached stream.
MetadataLoaded ==
    /\ startPc = "meta"
    /\ srcObject
    /\ startPc' = "play"
    /\ step' = [op |-> "metadata"]
    /\ UNCHANGED <<now, isScanning, isProcessingStart, camerasKnown, srcObject, loop, handVars,
                   debounceVars, irMode, timers, captures, pending, logVars>>

\* play() whose rejection is not followed by stopScanning().
PlayDoneNoCatch(ok) ==
    /\ startPc = "play"
    /\ ok => srcObject
    /\ startPc' = "none"
    /\ isProcessingStart' = FALSE
    /\ loop' = IF ok /\ isScanning THEN "sending" ELSE loop
    /\ UNCHANGED <<isScanning, srcObject>>
    /\ step' = [op |-> "play", ok |-> ok]
    /\ UNCHANGED <<now, camerasKnown, handVars, debounceVars, irMode, timers, captures,
                   pending, logVars>>

\* play() resolves: detectHand() is called (a loop that is still alive and the
\* new one are one loop here) and the finally block runs; or play() rejects
\* (catch: stopScanning(); finally).
PlayDone(ok) ==
    /\ startPc = "play"
    /\ ok => srcObject
    /\ startPc' = "none"
    /\ isProcessingStart' = FALSE
    /\ IF ok
       THEN /\ loop' = IF isScanning THEN "sending" ELSE loop
            /\ UNCHANGED <<isScanning, srcObject>>
       ELSE /\ isScanning' = FALSE
            /\ srcObject' = FALSE
            /\ loop' = loop
    /\ step' = [op |-> "play", ok |-> ok]
    /\ UNCHANGED <<now, camerasKnown, handVars, debounceVars, irMode, timers, captures,
                   pending, logVars>>

\* The click on irModeBtn: the mode flips; a running scan is stopped and its
\* restart is scheduled.
toggleIRMode ==
    /\ Len(timers) < MaxToggles
    /\ irMode' = ~irMode
    /\ IF isScanning
       THEN /\ isScanning' = FALSE
            /\ srcObject' = FALSE
            /\ timers' = Append(timers, now + restartDelay)
       ELSE UNCHANGED <<isScanning, srcObject, timers>>
    /\ step' = [op |-> "irMode"]
    /\ UNCHANGED <<now, isProcessingStart, startPc, camerasKnown, loop, handVars,
                   debounceVars, captures, pending, logVars>>

(***************************************************************************)
(* Specifications                                                          *)
(***************************************************************************)
\* The state after construction and a successful startScanning(): a camera is
\* attached and the first frame has been sent to the landmark provider.
Scanning ==
    /\ now = StartTime
    /\ isScanning = TRUE
    /\ isProcessingStart = FALSE
    /\ startPc = "none"
    /\ camerasKnown = TRUE
    /\ srcObject = TRUE
    /\ loop = "sending"
    /\ palmData = NULL
    /\ handedness = NoLabel
    /\ landmarkHistory = << >>
    /\ isAutoCapturing = FALSE
    /\ perfectAlignmentTime = 0
    /\ lastCaptureTime = 0
    /\ irMode = FALSE
    /\ captures = << >>
    /\ pending = << >>
    /\ timers = << >>
    /\ fires = << >>
    /\ accepted = << >>
    /\ streakClean = FALSE
    /\ armedAt = 0
    /\ thrown = FALSE
    /\ nFrames = 0
    /\ step = NoStep

\* The debouncer: a scan in progress, a result every frame period or after a
\* pause, manual captures.  The encoding callbacks write no debouncer field
\* and are left to SpecCapture and SpecStore.
Next ==
    \/ \E dt \in {FramePeriod, captureCooldown} : DetectHand(dt)
    \/ \E r \in {<<OpenHand, "Right">>, <<NULL, NoLabel>>} :
          OnHandResults(r[1], r[2])
    \/ ManualTaken < MaxManual /\ Capture

Spec == Scanning /\ [][Next]_vars

(***************************************************************************)
(* The debouncer's properties, under Spec                                  *)
(***************************************************************************)
Last(seq) == seq[Len(seq)]
Gaps(times) == {times[i + 1] - times[i] : i \in 1..(Len(times) - 1)}
TimesOf(log) == [i \in 1..Len(log) |-> log[i].t]
AutoAccepted == SelectSeq(accepted, LAMBDA a : a.by = "auto")

\* C1: the debouncer fires only at the end of a continuous Perfect streak:
\* every result delivered between the arming frame and the firing frame was a
\* detected hand classified Perfect (none was a non-Perfect frame, none was a
\* result without a hand).
C1_FiresOnlyOnContinuousStreak ==
    (step.op = "frame" /\ step.fired) => streakClean

\* C3: after the debouncer fired at time t, no Perfect frame with
\* now - t < captureCooldown arms the debouncer or fires, so that two hold
\* sequences less than a cooldown apart give one fire.
C3_CooldownSuppresses ==
    /\ (fires # << >> /\ now - Last(fires) < captureCooldown)
          => (~isAutoCapturing /\ perfectAlignmentTime = 0)
    /\ (step.op = "frame" /\ step.cls = "Perfect" /\ step.reason = "Cooldown")
          => (~step.fired /\ ~step.armed)
    /\ \A g \in Gaps(fires) : g >= captureCooldown

\* A Perfect frame that ends a second full hold inside the cooldown of one fire.
C3_Witness ==
    /\ step.op = "frame" /\ step.cls = "Perfect" /\ step.reason = "Cooldown"
    /\ Len(fires) = 1
    /\ now - fires[1] >= holdTime
    /\ now - fires[1] < captureCooldown

NextHold ==
    \/ DetectHand(FramePeriod)
    \/ \E hand \in {OpenHand, NearHand} : OnHandResults(hand, "Right")

SpecHold == Scanning /\ [][NextHold]_vars

\* C2: starting Idle with the cooldown elapsed, a stream of Perfect frames
\* FramePeriod apart fires once, on the first frame with
\* now - armedAt >= holdTime, and on no frame before it.
C2_FiresOnceAfterHold ==
    /\ step.op = "frame" => step.cls = "Perfect"
    /\ nFrames >= 1 => armedAt = StartTime
    /\ (step.op = "frame" /\ now - armedAt < holdTime) => fires = << >>
    /\ (step.op = "frame" /\ now - armedAt >= holdTime) =>
           /\ Len(fires) = 1
           /\ fires[1] - armedAt >= holdTime
           /\ fires[1] - armedAt < holdTime + FramePeriod
    /\ (step.op = "frame" /\ step.fired) => fires = <<now>>

\* The sixth Perfect frame, holdTime after the first, fires.
C2_Witness ==
    /\ step.op = "frame" /\ step.fired
    /\ nFrames = 6
    /\ now - armedAt = holdTime
    /\ Len(fires) = 1

(***************************************************************************)
(* capture() and the encoding callback of a regular capture                *)
(***************************************************************************)
\* At most MaxFrames results are delivered in a behaviour of SpecCapture, and
\* at most MaxShortWaits of the waits between them are frame periods.
MaxFrames == 2
MaxShortWaits == 1

\* From construction: the scan is started and stopped, results with and
\* without a hand arrive a frame period or a pause apart, capture() is called
\* by the debouncer and by hand, and the encoding callbacks complete at any
\* later time.
NextCapture ==
    \/ StartClick
    \/ DetectCamerasDone(TRUE)
    \/ GetUserMediaDone(TRUE)
    \/ MetadataLoaded
    \/ PlayDone(TRUE)
    \/ \E dt \in {FramePeriod, captureCooldown} :
          /\ dt = FramePeriod => TicksUsed < MaxShortWaits
          /\ DetectHand(dt)
    \/ /\ nFrames < MaxFrames
       /\ \E r \in {<<OpenHand, "Right">>, <<OpenHand, "Left">>, <<NearHand, "Right">>,
                    <<FistHand, "Right">>, <<NULL, NoLabel>>} : OnHandResults(r[1], r[2])
    \/ ManualTaken < MaxManual /\ Capture
    \/ \E i \in 1..2 : RegularCaptureDone(i, FALSE)

SpecCapture == Init /\ [][NextCapture]_vars

\* capture() ran in the step that ends in this state.
CaptureCalled ==
    step.op = "capture" \/ (step.op = "frame" /\ step.fired)

\* C5: capture() adds no record and starts no encoding when it is called with
\* no palm data or no stream, or when checkHandFlatness or
\* checkPalmOrientation fails on the palm data of the call; in the last two
\* cases it leaves the debouncer Idle.
C5_RejectedCaptureAddsNothing ==
    [][ CaptureCalled' =>
          LET noPalm == palmData' = NULL \/ ~srcObject'
              failed == /\ ~noPalm
                        /\ \/ ~checkHandFlatness(palmData')
                           \/ ~checkPalmOrientation(palmData', handedness')
          IN  /\ (noPalm \/ failed) =>
                    /\ ~step'.accepted
                    /\ pending' = pending
                    /\ captures' = captures
                    /\ accepted' = accepted
              /\ failed => (~isAutoCapturing' /\ perfectAlignmentTime' = 0) ]_vars

\* capture() called by hand on a closed hand in front of a running camera: it
\* is rejected.
C5_Witness ==
    /\ step.op = "capture" /\ ~step.accepted
    /\ palmData # NULL /\ srcObject
    /\ ~checkHandFlatness(palmData)
    /\ pending = << >> /\ captures = << >>
    /\ ~isAutoCapturing /\ perfectAlignmentTime = 0

\* C6: the distance and the alignment of a regular capture's record are both
\* computed from the landmark set that was current when capture() was
\* called, whatever frames replaced palmData before the encoding callback.
C6_MetricsOfTheCall ==
    (step.op = "regularDone" /\ ~step.threw) => step.added[1].metrics = step.atCall

\* C7: when the hand is lost after capture() accepted a regular capture and
\* before its encoding callback, the callback raises no exception and the
\* record is stored.
C7_HandLostStillStored ==
    (step.op = "regularDone" /\ palmData = NULL) =>
        /\ ~step.threw
        /\ ~thrown
        /\ Len(step.added) = 1
        /\ captures # << >> /\ captures[1] = step.added[1]

(***************************************************************************)
(* The store of capture records                                            *)
(***************************************************************************)
\* A store persisted by earlier sessions and read back by the constructor:
\* n regular records, the newest first, with the ids 1..n of that earlier time.
Persisted(n) ==
    [k \in 1..n |-> [id |-> n + 1 - k, type |-> "regular", timestamp |-> ISOString(n + 1 - k),
                     metrics |-> [distance |-> 36, alignment |-> 96]]]
PersistedSizes == {0, 9}

InitStore ==
    /\ captures \in {Persisted(n) : n \in PersistedSizes}
    /\ now = StartTime
    /\ isScanning = FALSE
    /\ isProcessingStart = FALSE
    /\ startPc = "none"
    /\ camerasKnown = FALSE
    /\ srcObject = FALSE
    /\ loop = "off"
    /\ palmData = NULL
    /\ handedness = NoLabel
    /\ landmarkHistory = << >>
    /\ isAutoCapturing = FALSE
    /\ perfectAlignmentTime = 0
    /\ lastCaptureTime = 0
    /\ irMode = FALSE
    /\ pending = << >>
    /\ timers = << >>
    /\ fires = << >>
    /\ accepted = << >>
    /\ streakClean = FALSE
    /\ armedAt = 0
    /\ thrown = FALSE
    /\ nFrames = 0
    /\ step = NoStep

\* In a behaviour of SpecStore the clock advances by milliseconds, at most
\* MaxMs of them; at most MaxStoreFrames results are delivered, at most
\* MaxStoreManual captures are taken by hand and records are deleted while
\* the store holds more than MinKept of them.
MaxMs == 1
MaxStoreFrames == 2
MaxStoreManual == 2
MinKept == 8

\* The IR mode is chosen and the scan is started, once; captures are taken by
\* hand in either mode, their encodings complete in any order and at any
\* time, with or without a QuotaExceededError from localStorage; records are
\* deleted from the gallery.
NextStore ==
    \/ ~isScanning /\ StartClick
    \/ DetectCamerasDone(TRUE)
    \/ GetUserMediaDone(TRUE)
    \/ MetadataLoaded
    \/ PlayDone(TRUE)
    \/ ~isScanning /\ toggleIRMode
    \/ now < StartTime + MaxMs /\ DetectHand(1)
    \/ /\ nFrames < MaxStoreFrames
       /\ \E r \in {<<OpenHand, "Right">>, <<NULL, NoLabel>>} : OnHandResults(r[1], r[2])
    \/ ManualTaken < MaxStoreManual /\ Capture
    \/ \E i \in 1..2, quota \in BOOLEAN : RegularCaptureDone(i, quota)
    \/ \E i \in 1..2, quota \in BOOLEAN : DualCaptureDone(i, quota)
    \/ \E k \in 1..2 : /\ Len(captures) > MinKept
                       /\ k \in DOMAIN captures
                       /\ deleteCapture(captures[k].id)
    \/ captures # << >> /\ clearAllCaptures

SpecStore == InitStore /\ [][NextStore]_vars

Ids(records) == {records[k].id : k \in DOMAIN records}
IsPair(ir, regular) ==
    /\ ir.type = "ir" /\ regular.type = "regular"
    /\ ir.timestamp = regular.timestamp
    /\ ir.metrics = regular.metrics
    /\ regular.id = ir.id + 1
    /\ ir.pairedWith = regular.id /\ regular.pairedWith = ir.id

\* C8: in IR mode one accepted capture adds two records, 'ir' and 'regular',
\* with one timestamp and one metrics object, ids id and id + 1, each
\* pairedWith the other, both inserted in one step; outside IR mode one
\* accepted capture adds one 'regular' record without a pairedWith field.
C8_RecordsOfOneCapture ==
    /\ (CaptureCalled /\ step.accepted) =>
           pending[Len(pending)].kind = (IF irMode THEN "dual" ELSE "regular")
    /\ step.op = "dualDone" =>
           /\ Len(step.added) = 2
           /\ IsPair(step.added[1], step.added[2])
           /\ Len(captures) >= 2
           /\ captures[1] = step.added[1] /\ captures[2] = step.added[2]
    /\ step.op = "regularDone" =>
           /\ Len(step.added) = 1
           /\ step.added[1].type = "regular"
           /\ DOMAIN step.added[1] = {"id", "type", "timestamp", "metrics"}
           /\ captures # << >> /\ captures[1] = step.added[1]

\* C9: a store of at most maxCaptures records keeps at most maxCaptures
\* records, the most recently inserted first; when an insertion overflows,
\* the oldest records are dropped.
C9_StoreBounded ==
    [][ Len(captures) <= maxCaptures =>
          /\ Len(captures') <= maxCaptures
          /\ step'.op \in {"regularDone", "dualDone"} =>
                LET all == step'.added \o captures
                IN  /\ Len(captures') \in {Min(Len(all), maxCaptures), Min(Len(all), quotaKeep)}
                    /\ captures' = SubSeq(all, 1, Len(captures')) ]_vars

\* A pair is inserted into a store of nine records: the store holds
\* maxCaptures records, the pair first, and the oldest record is gone.
C9_Witness ==
    /\ step.op = "dualDone"
    /\ Len(captures) = maxCaptures
    /\ captures[1] = step.added[1] /\ captures[2] = step.added[2]
    /\ captures[3].id = 9
    /\ captures[maxCaptures].id = 2

\* C10: after any sequence of regular and dual captures the ids of the
\* stored records are pairwise distinct, so that deleteCapture(id) removes
\* one record.
C10_IdsDistinct ==
    /\ Cardinality(Ids(captures)) = Len(captures)
    /\ step.op = "delete" => step.removed = 1

\* C11: when a call of capture() that accepted the capture returns,
\* captures[0] is the record of that capture.
C11_RecordPresentOnReturn ==
    [][ (CaptureCalled' /\ step'.accepted) =>
           /\ captures' # << >>
           /\ captures' # captures
           /\ captures'[1].timestamp = ISOString(now') ]_vars

\* C12: stopScanning resets the stabilizer history to empty and the debouncer
\* to Idle, so that after a stop and a start the first detected frame is
\* stabilized from a history of length 1 and no capture fires from an arming
\* stamp taken before the stop.
C12_StopResets ==
    (step.op = "start" /\ step.stopped) =>
        /\ landmarkHistory = << >>
        /\ ~isAutoCapturing
        /\ perfectAlignmentTime = 0

\* C13: a result without a hand resets the debouncer to Idle (isAutoCapturing
\* false, perfectAlignmentTime cleared) together with palmData, handedness
\* and the landmark history.
C13_HandLostResets ==
    step.op = "nohand" =>
        /\ palmData = NULL /\ handedness = NoLabel /\ landmarkHistory = << >>
        /\ ~isAutoCapturing
        /\ perfectAlignmentTime = 0

(***************************************************************************)
(* Starting and stopping the scan                                          *)
(***************************************************************************)
\* Time passes while no handler runs.
Wait(dt) ==
    /\ MayPass(dt)
    /\ now' = now + dt
    /\ step' = [op |-> "wait"]
    /\ UNCHANGED <<scanVars, loop, handVars, debounceVars, irMode, timers, captures, pending,
                   logVars>>

\* At most MaxStartFrames results are delivered in a behaviour of SpecStart.
MaxStartFrames == 2

\* From construction: startBtn and irModeBtn are clicked at any time, also
\* while a start is awaiting the cameras, the stream or the video; each await
\* resolves or rejects; a scheduled restart comes due; results without a hand
\* arrive while the frame loop runs.
NextStart ==
    \/ StartClick
    \/ \E found \in BOOLEAN : DetectCamerasDone(found)
    \/ \E ok \in BOOLEAN : GetUserMediaDone(ok)
    \/ MetadataLoaded
    \/ \E ok \in BOOLEAN : PlayDone(ok)
    \/ toggleIRMode
    \/ RestartTimeout
    \/ Wait(restartDelay)
    \/ DetectHand(FramePeriod)
    \/ nFrames < MaxStartFrames /\ OnHandResults(NULL, NoLabel)

SpecStart == Init /\ [][NextStart]_vars

\* C14: after stopScanning() has returned, and for as long as isScanning stays
\* false, no stream is attached to the video element, also when
\* stopScanning() was called while a start was still awaiting the camera.
C14_StreamReleasedWhileStopped ==
    ~isScanning => ~srcObject

(***************************************************************************)
(* The stabilizer                                                          *)
(***************************************************************************)
\* At most MaxStabFrames results are delivered in a behaviour of
\* SpecStabilizer.
MaxStabFrames == 7

\* A scan in which the hand changes pose and distance from frame to frame and
\* is lost at any time.
NextStabilizer ==
    \/ DetectHand(FramePeriod)
    \/ /\ nFrames < MaxStabFrames
       /\ \E r \in {<<OpenHand, "Right">>, <<NearHand, "Right">>, <<FistHand, "Right">>,
                    <<EdgeOnHand, "Right">>, <<NULL, NoLabel>>} : OnHandResults(r[1], r[2])

SpecStabilizer == Scanning /\ [][NextStabilizer]_vars

\* C15: after a result without a hand the landmark history is empty, and the
\* next detected frame is returned by the stabilizer unmodified (the history
\* has length 1), however many frames the history held when the hand was lost.
C15_FreshAfterHandLost ==
    [][ /\ step'.op = "nohand" => landmarkHistory' = << >>
        /\ (landmarkHistory = << >> /\ step'.op = "frame") =>
               /\ Len(landmarkHistory') = 1
               /\ palmData' = landmarkHistory'[1] ]_vars

\* The hand is lost when the history holds historySize frames.
C15_Witness ==
    /\ step.op = "nohand"
    /\ step.held = historySize
    /\ landmarkHistory = << >>
    /\ palmData = NULL

\* The colour of the hand skeleton after a frame with a detected hand:
\* onHandResults calls updateHandVisualization(this.palmData) on every such
\* frame.
handColor == HandColor(palmData, handedness, palmData)

\* C16: the hand skeleton is green exactly on the frames the validation gate
\* reports Perfect, red exactly on the frames it reports too far or too
\* close, and yellow on every other frame with a detected hand.
C16_ColorFollowsGate ==
    step.op = "frame" =>
        /\ handColor = "green" <=> step.cls = "Perfect"
        /\ handColor = "red" <=> step.cls \in {"TooFar", "TooClose"}
        /\ handColor = "yellow" <=> step.cls \notin {"Perfect", "TooFar", "TooClose"}

(***************************************************************************)
(* calculateDistance as a function of the palm area                        *)
(***************************************************************************)
\* A hand whose palm polygon (wrist, index base, and the three other finger
\* bases in one point) is a right triangle with legs w and h: its doubled
\* area is w * h in units of 1/10000 of the frame.  The fingers are those of
\* the open hand.
MaxSide == 45
PalmHand(w, h) ==
    [i \in 0..20 |->
        IF i = 0 THEN [x |-> 52, y |-> 50 + h, z |-> 0]
        ELSE IF i = 5 THEN [x |-> 52 - w, y |-> 50, z |-> 0]
        ELSE IF i \in {9, 13, 17} THEN [x |-> 52, y |-> 50, z |-> 0]
        ELSE OpenHand[i]]

Heights == {5, 20, 25, 40, 45}
PalmHands == {PalmHand(w, h) : w \in 0..MaxSide, h \in Heights}

\* A scan in progress whose current stabilized hand has a palm of any size.
InitDistance ==
    /\ palmData \in PalmHands
    /\ landmarkHistory = <<palmData>>
    /\ handedness = "Right"
    /\ now = StartTime
    /\ isScanning = TRUE
    /\ isProcessingStart = FALSE
    /\ startPc = "none"
    /\ camerasKnown = TRUE
    /\ srcObject = TRUE
    /\ loop = "sending"
    /\ isAutoCapturing = FALSE
    /\ perfectAlignmentTime = 0
    /\ lastCaptureTime = 0
    /\ irMode = FALSE
    /\ captures = << >>
    /\ pending = << >>
    /\ timers = << >>
    /\ fires = << >>
    /\ accepted = << >>
    /\ streakClean = FALSE
    /\ armedAt = 0
    /\ thrown = FALSE
    /\ nFrames = 0
    /\ step = NoStep

\* this.calculateDistance(palmCenter) on the current hand; the value returned
\* is kept in `step`.
MeasureDistance ==
    /\ step = NoStep
    /\ step' = [op |-> "distance",
                distance |-> calculateDistance(calculatePalmCenter(palmData), palmData)]
    /\ UNCHANGED <<now, scanVars, loop, handVars, debounceVars, irMode, timers,
                   captures, pending, logVars>>

NextDistance == MeasureDistance

SpecDistance == InitDistance /\ [][NextDistance]_vars

C18_NotPerfectIsIdle ==
    (step.op = "frame" /\ step.cls # "Perfect") =>
        /\ ~isAutoCapturing
        /\ perfectAlignmentTime = 0

\* C19: a Perfect frame that finds the debouncer Armed before the hold time
\* has elapsed leaves it Armed and does not change perfectAlignmentTime.
C19_NoRestampWhileArmed ==
    [][ ( /\ isAutoCapturing
          /\ step'.op = "frame" /\ step'.cls = "Perfect"
          /\ now' - perfectAlignmentTime < holdTime ) =>
            /\ perfectAlignmentTime' = perfectAlignmentTime
            /\ isAutoCapturing' ]_vars

\* A later frame of a Perfect streak, mid-hold: Armed with the stamp of an
\* earlier frame.
C19_Witness ==
    /\ step.op = "frame" /\ step.cls = "Perfect" /\ ~step.armed /\ ~step.fired
    /\ isAutoCapturing
    /\ perfectAlignmentTime < now
    /\ now - perfectAlignmentTime < holdTime
    /\ now - lastCaptureTime >= captureCooldown

\* The first check that fails on a stabilized landmark set, in the order of
\* the gate; "Perfect" when none fails.
FirstFailing(landmarks, label, data) ==
    LET margin == 5
        nearEdge(i) == \/ landmarks[i].x < margin \/ landmarks[i].x > Unit - margin
                       \/ landmarks[i].y < margin \/ landmarks[i].y > Unit - margin
        distance  == calculateDistance(calculatePalmCenter(landmarks), data)
        alignment == calculateAlignment(landmarks)
        failing == <<
            <<"OutOfFrame", \E i \in 0..20 : nearEdge(i)>>,
            <<"FingersNotExtended", ~checkFingerExtension(landmarks)>>,
            <<"TooClose", distance < 5>>,
            <<"TooFar", distance > 45>>,
            <<"NotCentered", alignment # NaN /\ alignment < 300000>>,
            <<"WrongOrientation", ~checkPalmOrientation(landmarks, label)>>,
            <<"Rotated", RotationOver30(checkHandRotation(landmarks))>>,
            <<"NotFlat", ~checkHandFlatness(landmarks)>> >>
        failed == {k \in 1..8 : failing[k][2]}
    IN  IF failed = {} THEN "Perfect"
        ELSE failing[CHOOSE k \in failed : \A j \in failed : k <= j][1]

\* C20: the status reported on a frame with a hand is the first failing check
\* in the order edge, finger extension, too close, too far, alignment, palm
\* orientation, rotation, flatness, and Perfect when no check fails.
C20_FirstFailingReported ==
    step.op = "frame" => step.cls = FirstFailing(palmData, handedness, palmData)

\* C21: the landmark history never holds more than historySize frames; a
\* detected frame is appended behind the frames already held, which stay as
\* they were and in their order, and the oldest is dropped when a sixth
\* arrives; a no-hand result empties it; no other step touches it.
C21_HistoryIsRecentFrames ==
    [][ /\ Len(landmarkHistory') <= historySize
        /\ step'.op = "frame" =>
              /\ landmarkHistory' # << >>
              /\ Last(landmarkHistory') = step'.raw
              /\ IF Len(landmarkHistory) < historySize
                 THEN /\ Len(landmarkHistory') = Len(landmarkHistory) + 1
                      /\ SubSeq(landmarkHistory', 1, Len(landmarkHistory)) = landmarkHistory
                 ELSE /\ Len(landmarkHistory') = historySize
                      /\ SubSeq(landmarkHistory', 1, historySize - 1) = Tail(landmarkHistory)
        /\ step'.op = "nohand" => landmarkHistory' = << >>
        /\ step'.op \notin {"frame", "nohand"} => landmarkHistory' = landmarkHistory ]_vars

\* A sixth frame in a row has arrived: the first one is gone and the other
\* five are held in arrival order.
C21_Witness ==
    /\ step.op = "frame" /\ nFrames = 6
    /\ landmarkHistory = <<NearHand, FistHand, OpenHand, NearHand, FistHand>>

(***************************************************************************)
(* The arithmetic of stabilizeLandmarks                                    *)
(***************************************************************************)
\* The frames of the state machine live on a grid of 1/Unit of the frame, on
\* which the rounding of the arithmetic is below the resolution.  Here the
\* arithmetic itself is modelled: binary floating point with a significand of
\* FloatBits bits, every operation rounded to nearest, ties to even.  A
\* number is [m, k], the value m / 2^k with 2^(FloatBits-1) <= m < 2^FloatBits,
\* or [0, 0].
FloatBits == 6

RECURSIVE Pow2(_)
Pow2(n) == IF n = 0 THEN 1 ELSE 2 * Pow2(n - 1)

RECURSIVE Exponent(_, _, _)
Exponent(num, den, k) ==
    IF num * Pow2(k) >= den * Pow2(FloatBits - 1) THEN k ELSE Exponent(num, den, k + 1)

\* The floating-point number nearest to num / den (num >= 0, den > 0).
FloatOf(num, den) ==
    IF num = 0 THEN [m |-> 0, k |-> 0]
    ELSE LET k == Exponent(num, den, 0)
             q == (num * Pow2(k)) \div den
             r == (num * Pow2(k)) % den
             m == IF 2 * r > den \/ (2 * r = den /\ q % 2 = 1) THEN q + 1 ELSE q
         IN  IF m = Pow2(FloatBits) THEN [m |-> Pow2(FloatBits - 1), k |-> k - 1]
             ELSE [m |-> m, k |-> k]

FMul(a, b) == FloatOf(a.m * b.m, Pow2(a.k + b.k))
FAdd(a, b) == FloatOf(a.m * Pow2(b.k) + b.m * Pow2(a.k), Pow2(a.k + b.k))
FDiv(a, b) == FloatOf(a.m * Pow2(b.k), b.m * Pow2(a.k))

\* x += frame[i].x * w and weight += w over the frames, then x / weight.
RECURSIVE WeightedSum(_, _, _, _)
WeightedSum(history, i, c, n) ==
    IF n = 0 THEN [m |-> 0, k |-> 0]
    ELSE FAdd(WeightedSum(history, i, c, n - 1),
              FMul(history[n][i][c], FloatOf(n, Len(history))))

RECURSIVE WeightSum(_, _)
WeightSum(len, n) ==
    IF n = 0 THEN [m |-> 0, k |-> 0]
    ELSE FAdd(WeightSum(len, n - 1), FloatOf(n, len))

\* A stabilizer that divides by the number of frames instead of the weight sum.
stabilizeLandmarksByLength(history) ==
    IF Len(history) = 0 THEN NULL
    ELSE IF Len(history) = 1 THEN history[1]
    ELSE LET weight == FloatOf(Len(history), 1)
             coord(i, c) == FDiv(WeightedSum(history, i, c, Len(history)), weight)
         IN  [i \in 0..20 |-> [x |-> coord(i, "x"), y |-> coord(i, "y"), z |-> coord(i, "z")]]

stabilizeLandmarksIEEE(history) ==
    IF Len(history) = 0 THEN NULL
    ELSE IF Len(history) = 1 THEN history[1]
    ELSE LET weight == WeightSum(Len(history), Len(history))
             coord(i, c) == FDiv(WeightedSum(history, i, c, Len(history)), weight)
         IN  [i \in 0..20 |-> [x |-> coord(i, "x"), y |-> coord(i, "y"), z |-> coord(i, "z")]]

\* The coordinates in [1/8, 1) and a frame for each: the 21 landmarks stand
\* on the vertical line of abscissa x, at z = 0.
FloatInputs ==
    {[m |-> m, k |-> k] : m \in Pow2(FloatBits - 1)..(Pow2(FloatBits) - 1),
                          k \in FloatBits..(FloatBits + 2)}

FloatHand(x) == [i \in 0..20 |-> [x |-> x, y |-> FloatOf(i + 2, 25), z |-> [m |-> 0, k |-> 0]]]

Repeated(frame, n) == [j \in 1..n |-> frame]

\* A scan in progress whose history holds N identical frames, received after
\* a result without a hand.
InitIdentical ==
    /\ landmarkHistory \in {Repeated(FloatHand(x), n) : x \in FloatInputs, n \in 1..historySize}
    /\ palmData = NULL
    /\ handedness = "Right"
    /\ now = StartTime
    /\ isScanning = TRUE
    /\ isProcessingStart = FALSE
    /\ startPc = "none"
    /\ camerasKnown = TRUE
    /\ srcObject = TRUE
    /\ loop = "sending"
    /\ isAutoCapturing = FALSE
    /\ perfectAlignmentTime = 0
    /\ lastCaptureTime = 0
    /\ irMode = FALSE
    /\ captures = << >>
    /\ pending = << >>
    /\ timers = << >>
    /\ fires = << >>
    /\ accepted = << >>
    /\ streakClean = FALSE
    /\ armedAt = 0
    /\ thrown = FALSE
    /\ nFrames = 0
    /\ step = NoStep

\* this.palmData = this.stabilizeLandmarks(this.landmarkHistory)
Stabilize ==
    /\ step = NoStep
    /\ palmData' = stabilizeLandmarksIEEE(landmarkHistory)
    /\ step' = [op |-> "stabilize"]
    /\ UNCHANGED <<now, scanVars, loop, handedness, landmarkHistory, debounceVars, irMode,
                   timers, captures, pending, logVars>>

NextIdentical == Stabilize

SpecIdentical == InitIdentical /\ [][NextIdentical]_vars

WithinOneUlp(a, b) ==
    IF a.m = 0 \/ b.m = 0 THEN a = b
    ELSE LET k == Max(a.k, b.k)
         IN  Abs(a.m * Pow2(k - a.k) - b.m * Pow2(k - b.k)) <= 1

C23_AlignmentInUnitInterval ==
    step.op = "frame" =>
        LET alignment == calculateAlignment(palmData)
            nearEdge(i) == \/ palmData[i].x < 3 \/ palmData[i].x > Unit - 3
                           \/ palmData[i].y < 3 \/ palmData[i].y > Unit - 3
        IN  /\ alignment >= 0 /\ alignment <= 1000000
            /\ (\E i \in {0, 4, 8, 12, 16, 20} : nearEdge(i)) => alignment = 0

(***************************************************************************)
(* Handedness: the provider's label and the geometry of the frame          *)
(***************************************************************************)
\* The open palm of a left hand: the open right palm mirrored.
LeftOpenHand == [i \in 0..20 |-> [OpenHand[i] EXCEPT !.x = Unit - OpenHand[i].x]]

MaxLabelFrames == 3

\* Results of either hand under either label: the provider labels the hand,
\* the geometry shows which side of it faces the camera.
NextHandedness ==
    \/ DetectHand(FramePeriod)
    \/ /\ nFrames < MaxLabelFrames
       /\ \E hand \in {OpenHand, LeftOpenHand} : \E label \in {"Right", "Left"} :
             OnHandResults(hand, label)

SpecHandedness == Scanning /\ [][NextHandedness]_vars

Sign(n) == IF n > 0 THEN 1 ELSE IF n < 0 THEN -1 ELSE 0

\* C24: on a frame with a hand, the rotation angle is negated and the palm
\* normal is flipped exactly when the handedness label is Left, the label
\* checkPalmOrientation uses on that frame.
C24_FlipFollowsLabel ==
    step.op = "frame" =>
        LET isLeftHand == handedness = "Left"
            bx == palmData[9].x - palmData[0].x
            nz == calculatePalmNormal(palmData)
        IN  /\ checkHandRotation(palmData).det = (IF isLeftHand THEN bx ELSE -bx)
            /\ nz # NaN =>
                 Sign(nz) = (IF isLeftHand THEN -Sign(Cross(palmData).z)
                             ELSE Sign(Cross(palmData).z))

\* C25: lastCaptureTime changes only in a step in which the debouncer fired
\* and the capture() it called was accepted.
C25_CooldownOnlyByTakenCapture ==
    [][ lastCaptureTime' # lastCaptureTime =>
            (step'.op = "frame" /\ step'.fired /\ step'.accepted) ]_vars

C27_FailedStartLeavesStopped ==
    [][ ( \/ (step'.op = "cameras" /\ ~step'.found)
          \/ (step'.op \in {"media", "play"} /\ ~step'.ok) ) =>
            /\ ~isScanning'
            /\ ~srcObject'
            /\ ~isProcessingStart' ]_vars

\* play() was rejected on an attached stream: the scan is stopped, the stream
\* released and the next start is free to run.
C27_Witness ==
    /\ step.op = "play" /\ ~step.ok
    /\ ~isScanning /\ ~srcObject /\ ~isProcessingStart
    /\ startPc = "none"

\* C28: a startScanning call made while isProcessingStart is true changes
\* neither isScanning nor the stream nor the position of the call in
\* progress; and isProcessingStart is false whenever no call is in progress.
C28_StartIsNotReentrant ==
    [][ /\ (isProcessingStart /\ step'.op \in {"start", "restart"}) => scanVars' = scanVars
        /\ startPc' = "none" => ~isProcessingStart' ]_vars

\* The Start button was clicked while a call was waiting for play(): the scan
\* and its stream are as they were.
C28_Witness ==
    /\ step.op = "start"
    /\ isProcessingStart /\ startPc = "play"
    /\ isScanning /\ srcObject

\* C29: when the startScanning call scheduled by toggleIRMode has run and
\* returned at once (it found a call in progress, or a scan already running),
\* isScanning is true.
C29_RestartBringsScanBack ==
    (step.op = "restart" /\ (step.blocked \/ step.stopped)) => isScanning

\* C30: every stored record that has a pairedWith field has its partner in
\* the store.
C30_PartnersStored ==
    \A k \in DOMAIN captures :
        "pairedWith" \in DOMAIN captures[k] => captures[k].pairedWith \in Ids(captures)

====
